---- MODULE Spec2Model ----
(***************************************************************************)
(* A model of DecentralizedAIAgent (src/aiAgent.js): the tool registry,    *)
(* executeTool, and the run / createPlan / executePlan / executeReasoning  *)
(* / createFinalReport chain with its lifecycle events.                    *)
(*                                                                         *)
(* One action is one synchronous stretch of the code: from a public call   *)
(* or from the settlement of an awaited external call (reasoning service   *)
(* or tool handler) up to the next await or to the settlement of run.      *)
(*                                                                         *)
(* Environment: the task is an object, thrown values are Error objects     *)
(* with a message, event listeners only observe.  The reasoning service    *)
(* is not trusted: it may reject, answer with text that does not parse,    *)
(* leave out "steps", or give steps whose ids repeat.                      *)
(***************************************************************************)
EXTENDS Integers, Sequences, FiniteSets, TLC

\* ------------------------------------------------------------------ bounds
MaxPlanLen == 3          \* longest plan the reasoning service answers with
MaxRuns == 2             \* accepted run() calls explored

\* ------------------------------------------------------------------ values
Absent == "undefined"    \* a missing / falsy property
Truthy(x) == x /= Absent

BuiltinTools == {"contractInteract", "tokenSwap", "ipfsStore", "nftCreate"}
CustomNames == {"ipfsStore", "missingTool"}      \* names callers register
ToolNames == BuiltinTools \cup CustomNames
BuiltinHandler(n) == <<"builtin", n>>
CustomHandler == <<"custom", "stub">>
ToolDefinitions == [name : CustomNames \cup {Absent}, handler : {CustomHandler, <<Absent>>}]
\* what callers register while a run goes on: a tool of their own or an
\* invalid definition (replacing a built-in is explored under ToolSpec)
RunDefinitions == {toolDefinition \in ToolDefinitions : toolDefinition.name /= "ipfsStore"}
\* a second handler, to tell two registrations under one name apart
OtherHandler == <<"custom", "other">>
RegistryDefinitions == [name : CustomNames \cup {Absent}, handler : {CustomHandler, OtherHandler, <<Absent>>}]

Tasks == [objective : {"mint an NFT"}, walletAddress : {"0xA11CE", Absent}]

\* the steps the reasoning service puts into plans: a step for a built-in
\* tool, a step for a tool that is registered only if a caller registers it,
\* and a step without a tool that repeats the id of the first.  The first
\* carries parameters, a walletAddress of the plan's own among them; the
\* others carry none (spreading undefined adds no property).
NoParameters == <<>>
Steps == {[id |-> "s1", tool |-> "ipfsStore",
           parameters |-> [content |-> "metadata", walletAddress |-> "0xEVIL"]],
          [id |-> "s2", tool |-> "missingTool", parameters |-> NoParameters],
          [id |-> "s1", tool |-> Absent, parameters |-> NoParameters]}
RECURSIVE SeqsUpTo(_, _)
SeqsUpTo(S, n) ==
  IF n = 0 THEN {<<>>}
  ELSE LET shorter == SeqsUpTo(S, n - 1)
       IN shorter \cup {Append(p, s) : p \in {q \in shorter : Len(q) = n - 1}, s \in S}
Plans == SeqsUpTo(Steps, MaxPlanLen)

\* what a handler can do when it is invoked: return a value or throw
Error(name, message) == [name |-> name, message |-> message]
HandlerValues == {[success |-> TRUE, cid |-> "Qm123"],
                  [success |-> FALSE, error |-> <<"insufficient funds">>]}
HandlerErrors == {Error("Error", <<"handler exploded">>)}
Return(v) == [kind |-> "return", value |-> v]
Throw(e) == [kind |-> "throw", value |-> e]
HandlerOutcomes == {Return(v) : v \in HandlerValues} \cup {Throw(e) : e \in HandlerErrors}
\* the value the built-in ipfsStore returns when ipfs.add succeeds (lines 140-145)
StoredValue == [success |-> TRUE, cid |-> "Qm123", url |-> "ipfs://Qm123",
                gatewayUrl |-> "https://ipfs.io/ipfs/Qm123"]
StorageOutcomes == HandlerOutcomes \cup {Return(StoredValue)}
\* values of Math.floor(Math.random() * 1000000) (line 172)
TokenIds == {0, 999999}
\* object.field, undefined when the object has no such property
Field(object, field) == IF field \in DOMAIN object THEN object[field] ELSE Absent

\* what the reasoning service can do with a request
ServiceError == Error("Error", <<"service unavailable">>)
ServiceTexts == {"some text"}
ReasoningTexts == ServiceTexts \cup {""}      \* the text of a step may be empty

NoResults == <<>>        \* the empty object {}

VARIABLES
  status,      \* this.status
  tools,       \* this.tools: name -> tool definition
  pc,          \* where the run in flight is suspended, or how the last one ended
  runs,        \* number of accepted run() calls; the next taskId (uuidv4) is runs + 1
  taskId,      \* taskId of the current run
  task,        \* task of the current run
  plan,        \* plan of the current run
  stepIdx,     \* position in plan of the step being executed
  results,     \* results object of executePlan
  awaited,     \* the external call the run is suspended at
  settled,     \* how run() of the current run settled
  events,      \* events emitted since the current run was accepted
  direct,      \* the handler a direct executeTool call is suspended at
  lastCall     \* outcome of the latest rejected run / registerTool / enableTool / executeTool call

vars == <<status, tools, pc, runs, taskId, task, plan, stepIdx, results, awaited, settled, events, direct, lastCall>>
runVars == <<pc, runs, taskId, task, plan, stepIdx, results, awaited, settled, events>>

\* ------------------------------------------------------------------ registry
Has(reg, n) == n \in DOMAIN reg
Set(reg, n, def) == (n :> def) @@ reg

RegisterWeb3Tools == [n \in BuiltinTools |-> [name |-> n, handler |-> BuiltinHandler(n)]]

\* emit(type, payload); index and status are what an observer sees at delivery
Event(type, payload, k, st) == [type |-> type, payload |-> payload, index |-> k, status |-> st]

Pending == [kind |-> "pending"]
NoCall == [op |-> "none"]
NoAwait == [call |-> "none"]

Init ==
  /\ status = "idle"
  /\ tools = RegisterWeb3Tools
  /\ pc = "none"
  /\ runs = 0
  /\ taskId = 0
  /\ task = [objective |-> Absent, walletAddress |-> Absent]
  /\ plan = <<>>
  /\ stepIdx = 0
  /\ results = NoResults
  /\ awaited = NoAwait
  /\ settled = Pending
  /\ events = <<>>
  /\ direct = NoAwait
  /\ lastCall = NoCall

\* ------------------------------------------------------------------ registerTool / enableTool
InvalidToolError == Error("Error", <<"Tool must have a name and handler function">>)

\* registerTool keeping the entry a name already has
RegisterToolKeepsFirst(toolDefinition) ==
  /\ IF ~Truthy(toolDefinition.name) \/ toolDefinition.handler = <<Absent>>
     THEN /\ lastCall' = [op |-> "registerTool", outcome |-> Throw(InvalidToolError)]
          /\ UNCHANGED tools
     ELSE /\ tools' = IF Has(tools, toolDefinition.name) THEN tools
                      ELSE Set(tools, toolDefinition.name, toolDefinition)
          /\ lastCall' = [op |-> "registerTool", outcome |-> Return([this |-> TRUE])]
  /\ UNCHANGED <<status, runVars, direct>>

\* registerTool checking the name only (line 185 without its second test)
RegisterToolNameOnly(toolDefinition) ==
  /\ IF ~Truthy(toolDefinition.name)
     THEN /\ lastCall' = [op |-> "registerTool", outcome |-> Throw(InvalidToolError)]
          /\ UNCHANGED tools
     ELSE /\ tools' = Set(tools, toolDefinition.name, toolDefinition)
          /\ lastCall' = [op |-> "registerTool", outcome |-> Return([this |-> TRUE])]
  /\ UNCHANGED <<status, runVars, direct>>

RegisterTool(toolDefinition) ==
  /\ IF ~Truthy(toolDefinition.name) \/ toolDefinition.handler = <<Absent>>
     THEN /\ lastCall' = [op |-> "registerTool", outcome |-> Throw(InvalidToolError)]
          /\ UNCHANGED tools
     ELSE /\ tools' = Set(tools, toolDefinition.name, toolDefinition)
          /\ lastCall' = [op |-> "registerTool", outcome |-> Return([this |-> TRUE])]
  /\ UNCHANGED <<status, runVars, direct>>

\* enableTool taking a registered name out of the registry
EnableToolToggles(toolName) ==
  /\ lastCall' = [op |-> "enableTool", outcome |-> Return([this |-> TRUE]),
                  warned |-> ~Has(tools, toolName)]
  /\ tools' = [name \in DOMAIN tools \ {toolName} |-> tools[name]]
  /\ UNCHANGED <<status, runVars, direct>>

\* lines 197-205
EnableTool(toolName) ==
  /\ lastCall' = [op |-> "enableTool", outcome |-> Return([this |-> TRUE]),
                  warned |-> ~Has(tools, toolName)]
  /\ UNCHANGED <<status, tools, runVars, direct>>

\* ------------------------------------------------------------------ executeTool
ToolNotFoundError(toolName) == Error("Error", <<"Tool not found: ", toolName>>)

\* executeTool without the check of line 215: reading handler of undefined
ExecuteToolResolveUnguarded(reg, toolName) ==
  IF ~Has(reg, toolName)
  THEN Throw(Error("TypeError", <<"Cannot read properties of undefined (reading 'handler')">>))
  ELSE Return(reg[toolName])

\* lines 214-217: look the tool up, throw when there is none
ExecuteToolResolve(reg, toolName) ==
  IF ~Has(reg, toolName) THEN Throw(ToolNotFoundError(toolName))
  ELSE Return(reg[toolName])

\* executeTool without its try/catch: the handler's exception goes through
ExecuteToolSettleRethrows(handlerOutcome) ==
  IF handlerOutcome.kind = "throw"
  THEN Throw(handlerOutcome.value)
  ELSE Return(handlerOutcome.value)

\* lines 219-223: what executeTool settles with once the handler has settled
ExecuteToolSettle(handlerOutcome) ==
  IF handlerOutcome.kind = "throw"
  THEN Return([success |-> FALSE, error |-> handlerOutcome.value.message])
  ELSE Return(handlerOutcome.value)

\* lines 160-163: the handler of nftCreate starts by calling
\* executeTool('ipfsStore', ...), which looks ipfsStore up in the registry
NotNested == [kind |-> "none"]
Invocation(reg, tool) ==
  IF tool.handler = BuiltinHandler("nftCreate") THEN ExecuteToolResolve(reg, "ipfsStore")
  ELSE NotNested

\* the handler of nftCreate returning a failure of its own when storage failed
NftCreateWraps(stored, tokenId) ==
  IF stored.kind = "throw" THEN stored
  ELSE IF ~stored.value.success
  THEN Return([success |-> FALSE, error |-> <<"Failed to store metadata">>])
  ELSE Return([success |-> TRUE, tokenId |-> tokenId,
               metadataUri |-> Field(stored.value, "url"), txHash |-> "0x<random>"])

\* lines 165-175: the handler of nftCreate once executeTool('ipfsStore') has settled
NftCreate(stored, tokenId) ==
  IF stored.kind = "throw" THEN stored
  ELSE IF ~stored.value.success THEN Return(stored.value)
  ELSE Return([success |-> TRUE, tokenId |-> tokenId,
               metadataUri |-> Field(stored.value, "url"), txHash |-> "0x<random>"])

\* how the handler of a tool settles, given how the handler at the bottom of
\* the call settles: that of ipfsStore for nftCreate, its own otherwise
HandlerResult(storage, handlerOutcome, tokenId) ==
  IF storage = NotNested THEN handlerOutcome
  ELSE IF storage.kind = "throw" THEN storage
  ELSE NftCreate(ExecuteToolSettle(handlerOutcome), tokenId)

\* a direct call of the public executeTool, up to the await of line 220
ExecuteTool(toolName) ==
  /\ direct = NoAwait
  /\ LET resolved == ExecuteToolResolve(tools, toolName)
     IN IF resolved.kind = "throw"
        THEN /\ lastCall' = [op |-> "executeTool", toolName |-> toolName,
                             invoked |-> FALSE, outcome |-> resolved]
             /\ UNCHANGED direct
        ELSE /\ direct' = [call |-> "handler", toolName |-> toolName, tool |-> resolved.value,
                             storage |-> Invocation(tools, resolved.value)]
             /\ UNCHANGED lastCall
  /\ UNCHANGED <<status, tools, runVars>>

\* the handler of the direct call settles, and executeTool with it
HandlerSettled(handlerOutcome) ==
  /\ direct /= NoAwait
  /\ \E tokenId \in TokenIds :
       lastCall' = [op |-> "executeTool", toolName |-> direct.toolName, invoked |-> TRUE,
                    outcome |-> ExecuteToolSettle(HandlerResult(direct.storage, handlerOutcome, tokenId))]
  /\ direct' = NoAwait
  /\ UNCHANGED <<status, tools, runVars>>

\* ------------------------------------------------------------------ run
AgentBusyError == Error("Error", <<"Agent is already running a task">>)
\* the guard of line 232 left out
AgentBusyNever(s) == FALSE
AgentBusy(s) == s /= "idle"

\* the catch of run without line 253
RunCatchKeepsStatus(error, evs) ==
  /\ UNCHANGED status
  /\ events' = Append(evs, Event("taskFailed", [taskId |-> taskId, error |-> error.message], 0, status))
  /\ settled' = Throw(error)
  /\ pc' = "rejected"
  /\ awaited' = NoAwait

\* the catch of run throwing a new error instead of the one it caught (line 255)
RunCatchWraps(error, evs) ==
  /\ status' = "idle"
  /\ events' = Append(evs, Event("taskFailed", [taskId |-> taskId, error |-> error.message], 0, "idle"))
  /\ settled' = Throw(Error("Error", <<"Task failed: ">> \o error.message))
  /\ pc' = "rejected"
  /\ awaited' = NoAwait

\* the catch of run emitting taskFailed before it resets status (lines 253, 254 swapped)
RunCatchEmitsFirst(error, evs) ==
  /\ events' = Append(evs, Event("taskFailed", [taskId |-> taskId, error |-> error.message], 0, status))
  /\ status' = "idle"
  /\ settled' = Throw(error)
  /\ pc' = "rejected"
  /\ awaited' = NoAwait

\* lines 252-256: the catch of run
RunCatch(error, evs) ==
  /\ status' = "idle"
  /\ events' = Append(evs, Event("taskFailed", [taskId |-> taskId, error |-> error.message], 0, "idle"))
  /\ settled' = Throw(error)
  /\ pc' = "rejected"
  /\ awaited' = NoAwait

\* lines 231-244, up to the request createPlan sends (lines 266-284)
Run(t) ==
  IF AgentBusy(status)
  THEN /\ lastCall' = [op |-> "run", outcome |-> Throw(AgentBusyError)]
       /\ UNCHANGED <<status, tools, runVars, direct>>
  ELSE /\ runs < MaxRuns
       /\ status' = "running"
       /\ runs' = runs + 1
       /\ taskId' = runs + 1
       /\ task' = t
       /\ events' = <<Event("taskStart", [taskId |-> runs + 1, objective |-> t.objective], 0, "running")>>
       /\ plan' = <<>>
       /\ stepIdx' = 0
       /\ results' = NoResults
       /\ settled' = Pending
       /\ awaited' = [call |-> "plan", tools |-> DOMAIN tools]
       /\ pc' = "planning"
       /\ UNCHANGED <<tools, direct, lastCall>>

\* ------------------------------------------------------------------ createPlan
PlanContents ==
  {[parses |-> FALSE], [parses |-> TRUE, hasSteps |-> FALSE]}
    \cup {[parses |-> TRUE, hasSteps |-> TRUE, steps |-> p] : p \in Plans}

\* lines 286-291: JSON.parse(planContent).steps
CreatePlan(content) ==
  IF ~content.parses
  THEN Throw(Error("Error", <<"Failed to create plan: ", "Unexpected token">>))
  ELSE IF ~content.hasSteps THEN Return([defined |-> FALSE])
  ELSE Return([defined |-> TRUE, steps |-> content.steps])

\* ------------------------------------------------------------------ executePlan
\* line 309 without the registry lookup
UsesToolUnchecked(step, reg) == Truthy(step.tool)

\* line 309
UsesTool(step, reg) == Truthy(step.tool) /\ Has(reg, step.tool)

\* lines 311-314 with the two parts of the object literal swapped
ToolParametersPlanWins(step, t) == step.parameters @@ [walletAddress |-> t.walletAddress]

\* lines 311-314: {...step.parameters, walletAddress: task.walletAddress}
ToolParameters(step, t) == [walletAddress |-> t.walletAddress] @@ step.parameters

\* the catch of executePlan without line 323
StepCatchSilent(p, k, error, evs) ==
  /\ RunCatch(error, evs)
  /\ stepIdx' = k

\* lines 322-325 followed by the catch of run
StepCatch(p, k, error, evs) ==
  /\ RunCatch(error, Append(evs, Event("stepFailed", [step |-> p[k], error |-> error.message], k, status)))
  /\ stepIdx' = k

\* lines 303-318 and 328-329 with createFinalReport's request (366-378):
\* the loop of executePlan from position k up to its next await
ExecutePlanFrom(p, k, res, evs) ==
  /\ results' = res
  /\ IF k > Len(p)
     THEN /\ events' = evs
          /\ stepIdx' = k
          /\ awaited' = [call |-> "summary", results |-> res]
          /\ pc' = "report"
          /\ UNCHANGED <<status, settled>>
     ELSE LET step == p[k]
              started == Append(evs, Event("stepStart", [step |-> step], k, status))
          IN IF UsesTool(step, tools)
             THEN LET resolved == ExecuteToolResolve(tools, step.tool)
                  IN IF resolved.kind = "throw"
                     THEN StepCatch(p, k, resolved.value, started)
                     ELSE /\ events' = started
                          /\ stepIdx' = k
                          /\ awaited' = [call |-> "handler", tool |-> resolved.value,
                                         parameters |-> ToolParameters(step, task),
                                         storage |-> Invocation(tools, resolved.value)]
                          /\ pc' = "tool"
                          /\ UNCHANGED <<status, settled>>
             ELSE /\ events' = started
                  /\ stepIdx' = k
                  /\ awaited' = [call |-> "reasoning", step |-> step, previousResults |-> res]
                  /\ pc' = "reasoning"
                  /\ UNCHANGED <<status, settled>>

\* executePlan treating a result with success = false as a failed step
StepDoneAbortsOnFailure(stepResult) ==
  LET step == plan[stepIdx]
      res == Set(results, step.id, stepResult)
      evs == Append(events, Event("stepComplete", [step |-> step, result |-> stepResult], stepIdx, status))
  IN IF stepResult.success
     THEN ExecutePlanFrom(plan, stepIdx + 1, res, evs)
     ELSE StepCatch(plan, stepIdx, Error("Error", <<"step failed">>), events) /\ UNCHANGED results

\* lines 320-321, then the next turn of the loop
StepDone(stepResult) ==
  LET step == plan[stepIdx]
      res == Set(results, step.id, stepResult)
      evs == Append(events, Event("stepComplete", [step |-> step, result |-> stepResult], stepIdx, status))
  IN ExecutePlanFrom(plan, stepIdx + 1, res, evs)

\* the reasoning service rejects the planning request (line 279)
PlanServiceFails ==
  /\ pc = "planning"
  /\ RunCatch(ServiceError, events)
  /\ UNCHANGED <<tools, runs, taskId, task, plan, stepIdx, results, direct, lastCall>>

\* the reasoning service answers the planning request (lines 286-291, 247, 300-318)
PlanAnswered(content) ==
  /\ pc = "planning"
  /\ LET created == CreatePlan(content)
     IN IF created.kind = "throw"
        THEN RunCatch(created.value, events) /\ UNCHANGED <<plan, stepIdx, results>>
        ELSE IF ~created.value.defined
        THEN /\ RunCatch(Error("TypeError", <<"plan is not iterable">>), events)
             /\ UNCHANGED <<plan, stepIdx, results>>
        ELSE /\ plan' = created.value.steps
             /\ ExecutePlanFrom(created.value.steps, 1, NoResults, events)
  /\ UNCHANGED <<tools, runs, taskId, task, direct, lastCall>>

\* the handler awaited at line 220 settles
ToolSettled(handlerOutcome) ==
  /\ pc = "tool"
  /\ \E tokenId \in TokenIds :
       LET executed == ExecuteToolSettle(HandlerResult(awaited.storage, handlerOutcome, tokenId))
       IN IF executed.kind = "throw"
          THEN StepCatch(plan, stepIdx, executed.value, events) /\ UNCHANGED results
          ELSE StepDone(executed.value)
  /\ UNCHANGED <<tools, runs, taskId, task, plan, direct, lastCall>>

\* ------------------------------------------------------------------ executeReasoning
\* executeReasoning reporting an empty text as a failure
ExecuteReasoningValidates(text) == [success |-> text /= "", reasoning |-> text]

\* lines 353-356
ExecuteReasoning(text) == [success |-> TRUE, reasoning |-> text]

ReasoningAnswered(text) ==
  /\ pc = "reasoning"
  /\ StepDone(ExecuteReasoning(text))
  /\ UNCHANGED <<tools, runs, taskId, task, plan, direct, lastCall>>

\* the request of line 347 is rejected
ReasoningFails ==
  /\ pc = "reasoning"
  /\ StepCatch(plan, stepIdx, ServiceError, events)
  /\ UNCHANGED <<tools, runs, taskId, task, plan, results, direct, lastCall>>

\* the answer to the request of line 347 has no choices[0]: line 355 throws
ReasoningMalformed ==
  /\ pc = "reasoning"
  /\ StepCatch(plan, stepIdx,
               Error("TypeError", <<"Cannot read properties of undefined (reading 'message')">>), events)
  /\ UNCHANGED <<tools, runs, taskId, task, plan, results, direct, lastCall>>

\* ------------------------------------------------------------------ createFinalReport
\* lines 380-385
CreateFinalReport(t, res, text) ==
  [success |-> TRUE, objective |-> t.objective, summary |-> text, results |-> res]

\* run emitting taskComplete with an id of its own (a second uuidv4())
ReportAnsweredFreshId(text) ==
  /\ pc = "report"
  /\ LET result == CreateFinalReport(task, results, text)
     IN /\ status' = "idle"
        /\ events' = Append(events, Event("taskComplete", [taskId |-> runs + 1, result |-> result], 0, "idle"))
        /\ settled' = Return(result)
  /\ pc' = "returned"
  /\ awaited' = NoAwait
  /\ UNCHANGED <<tools, runs, taskId, task, plan, stepIdx, results, direct, lastCall>>

\* lines 249-251
ReportAnswered(text) ==
  /\ pc = "report"
  /\ LET result == CreateFinalReport(task, results, text)
     IN /\ status' = "idle"
        /\ events' = Append(events, Event("taskComplete", [taskId |-> taskId, result |-> result], 0, "idle"))
        /\ settled' = Return(result)
  /\ pc' = "returned"
  /\ awaited' = NoAwait
  /\ UNCHANGED <<tools, runs, taskId, task, plan, stepIdx, results, direct, lastCall>>

\* the request of line 374 is rejected
ReportFails ==
  /\ pc = "report"
  /\ RunCatch(ServiceError, events)
  /\ UNCHANGED <<tools, runs, taskId, task, plan, stepIdx, results, direct, lastCall>>

\* ------------------------------------------------------------------ specification
RunCalled == \E t \in Tasks : Run(t)

Next ==
  \/ RunCalled
  \/ PlanServiceFails
  \/ \E content \in PlanContents : PlanAnswered(content)
  \/ \E handlerOutcome \in HandlerOutcomes : ToolSettled(handlerOutcome)
  \/ \E text \in ReasoningTexts : ReasoningAnswered(text)
  \/ ReasoningFails
  \/ ReasoningMalformed
  \/ \E text \in ServiceTexts : ReportAnswered(text)
  \/ ReportFails
  \/ \E toolDefinition \in RunDefinitions : RegisterTool(toolDefinition)
  \/ \E toolName \in CustomNames : EnableTool(toolName)

Spec == Init /\ [][Next]_vars

\* the registry and direct executeTool calls, no run in flight
ToolNext ==
  \/ \E toolDefinition \in RegistryDefinitions : RegisterTool(toolDefinition)
  \/ \E toolName \in ToolNames : EnableTool(toolName)
  \/ \E toolName \in ToolNames : ExecuteTool(toolName)
  \/ \E handlerOutcome \in StorageOutcomes : HandlerSettled(handlerOutcome)

ToolSpec == Init /\ [][ToolNext]_vars

\* ------------------------------------------------------------------ observations
InFlight == pc \in {"planning", "tool", "reasoning", "report"}
Completed == pc \in {"returned", "rejected"}
HasEvent(evs, type, k) == \E i \in DOMAIN evs : evs[i].type = type /\ evs[i].index = k
StepEvents == {"stepStart", "stepComplete", "stepFailed"}
TerminalEvents == {"taskComplete", "taskFailed"}
BusyRejection == [op |-> "run", outcome |-> Throw(AgentBusyError)]

TypeOK ==
  /\ status \in {"idle", "running"}
  /\ pc \in {"none", "planning", "tool", "reasoning", "report", "returned", "rejected"}
  /\ runs \in 0..MaxRuns

\* ------------------------------------------------------------------ claims

\* C1: a run(task) call made while status = running fails at once with the
\* agent-busy error and changes nothing: status, the results of the run in
\* flight, its events and its position stay as they were, so the run in
\* flight goes on to its own completion.
C1_BusyRunChangesNothing ==
  [][(RunCalled /\ status = "running")
       => (lastCall' = BusyRejection /\ UNCHANGED <<status, tools, runVars, direct>>)]_vars

\* a run was rejected as busy and the run in flight went on to return its report
C1_Witness ==
  /\ lastCall = BusyRejection
  /\ runs = 1
  /\ pc = "returned"
  /\ Len(plan) >= 1

ResultOf(j) ==
  LET i == CHOOSE i \in DOMAIN events : events[i].type = "stepComplete" /\ events[i].index = j
  IN events[i].payload.result

\* C3: steps start in the order of the plan, step k+1 is not started before
\* the result of step k is recorded, and the prior-results map a step k sees
\* contains exactly the results of steps 1..k-1, one entry per earlier step.
C3_PriorResultsPerStep ==
  /\ \A k \in 1..Len(plan) :
        HasEvent(events, "stepStart", k) =>
          \A j \in 1..(k - 1) : HasEvent(events, "stepComplete", j) /\ plan[j].id \in DOMAIN results
  /\ \A i \in DOMAIN events :
        events[i].type = "stepStart" => events[i].payload.step = plan[events[i].index]
  /\ pc = "reasoning" =>
        LET prior == awaited.previousResults
        IN /\ Cardinality(DOMAIN prior) = stepIdx - 1
           /\ \A j \in 1..(stepIdx - 1) :
                 plan[j].id \in DOMAIN prior /\ prior[plan[j].id] = ResultOf(j)

\* C4: in a plan of two or more steps whose first step names a registered
\* tool whose handler throws, execution stops at step 1: the run is rejected,
\* no stepStart is emitted for step 2, the results map holds only s1.
C4_StopsAtThrowingTool ==
  [][(pc = "tool" /\ stepIdx = 1 /\ Len(plan) >= 2
        /\ \E e \in HandlerErrors : ToolSettled(Throw(e)))
       => (/\ pc' = "rejected"
           /\ ~HasEvent(events', "stepStart", 2)
           /\ DOMAIN results' \subseteq {plan[1].id})]_vars

\* C4 as the code has it: the exception of the handler of step 1 becomes the
\* soft failure {success:false, error:<message>} recorded as the result of
\* s1, stepComplete (not stepFailed) is emitted for s1, and step 2 is started.
C4_ThrowingToolContinues ==
  [][\A e \in HandlerErrors :
       (pc = "tool" /\ stepIdx = 1 /\ Len(plan) >= 2 /\ ToolSettled(Throw(e)))
         => LET failure == [success |-> FALSE, error |-> e.message]
            IN /\ results' = Set(NoResults, plan[1].id, failure)
               /\ events' = events \o
                    <<Event("stepComplete", [step |-> plan[1], result |-> failure], 1, "running"),
                      Event("stepStart", [step |-> plan[2]], 2, "running")>>
               /\ stepIdx' = 2
               /\ pc' \in {"tool", "reasoning"}
               /\ status' = "running"
               /\ settled' = Pending]_vars

\* the handler of step 1 threw and step 2 is being executed
C4_Witness ==
  /\ InFlight
  /\ stepIdx = 2
  /\ UsesTool(plan[1], tools)
  /\ results = Set(NoResults, plan[1].id, [success |-> FALSE, error |-> <<"handler exploded">>])
  /\ HasEvent(events, "stepStart", 2)

\* a step is started whose tool field names a tool that is not registered
StartsUnregistered(k) ==
  /\ HasEvent(events', "stepStart", k)
  /\ ~HasEvent(events, "stepStart", k)
  /\ Truthy(plan'[k].tool)
  /\ ~Has(tools, plan'[k].tool)

\* C5: when a step names a tool that is not in the registry, run rejects with
\* a tool-not-found error, stepFailed for the step is emitted before
\* taskFailed, and status is idle afterwards.
C5_MissingToolRejects ==
  [][\A k \in DOMAIN plan' :
       StartsUnregistered(k)
         => LET error == ToolNotFoundError(plan'[k].tool)
            IN /\ settled' = Throw(error)
               /\ status' = "idle"
               /\ Len(events') >= 2
               /\ events'[Len(events') - 1].type = "stepFailed"
               /\ events'[Len(events') - 1].index = k
               /\ events'[Len(events')].type = "taskFailed"]_vars

\* C5 as the code has it: a step whose tool is not in the registry is handed
\* to the reasoning fallback with the results so far; nothing fails at that
\* point (no stepFailed, no taskFailed, status stays running), and no run is
\* ever rejected with a tool-not-found error.
C5_MissingToolFallsBack ==
  /\ [][\A k \in DOMAIN plan' :
          StartsUnregistered(k)
            => /\ pc' = "reasoning"
               /\ awaited' = [call |-> "reasoning", step |-> plan'[k], previousResults |-> results']
               /\ events'[Len(events')].type = "stepStart"
               /\ status' = "running"
               /\ settled' = Pending]_vars
  /\ [](settled.kind = "throw" => settled.value.message[1] /= "Tool not found: ")

\* the step of an unregistered tool is at the reasoning service
C5_Witness ==
  /\ pc = "reasoning"
  /\ Truthy(plan[stepIdx].tool)
  /\ ~Has(tools, plan[stepIdx].tool)
  /\ awaited.step = plan[stepIdx]

SoftFailures == {v \in HandlerValues : ~v.success}

\* C6: when the handler of a tool step returns {success:false, ...} without
\* raising, that value is stored under step.id, stepComplete (not stepFailed)
\* is emitted for the step, and execution goes on to the next step of the
\* plan (to the final report after the last step); the run is not rejected.
C6_SoftFailureContinues ==
  [][\A v \in SoftFailures :
       (pc = "tool" /\ ToolSettled(Return(v)))
         => LET k == stepIdx
                completed == Append(events, Event("stepComplete", [step |-> plan[k], result |-> v], k, "running"))
            IN /\ results' = Set(results, plan[k].id, v)
               /\ status' = "running"
               /\ settled' = Pending
               /\ stepIdx' = k + 1
               /\ IF k < Len(plan)
                  THEN /\ events' = Append(completed, Event("stepStart", [step |-> plan[k + 1]], k + 1, "running"))
                       /\ pc' \in {"tool", "reasoning"}
                  ELSE /\ events' = completed
                       /\ pc' = "report"]_vars

\* a step ended in a soft failure and a later step of the plan is being executed
C6_Witness ==
  /\ pc \in {"tool", "reasoning"}
  /\ \E i \in DOMAIN events :
       /\ events[i].type = "stepComplete"
       /\ events[i].payload.result \in SoftFailures
       /\ events[i].index < stepIdx
       /\ results[events[i].payload.step.id] \in SoftFailures

\* C7: executeTool(name, params) with a name that is not in the registry fails
\* with the tool-not-found error (the Error whose message is "Tool not found:
\* <name>"), not with another error and not with a {success:false} value, and
\* no handler is invoked.
C7_UnregisteredToolNotFound ==
  [][\A n \in ToolNames :
       (ExecuteTool(n) /\ ~Has(tools, n))
         => /\ lastCall' = [op |-> "executeTool", toolName |-> n, invoked |-> FALSE,
                             outcome |-> Throw(Error("Error", <<"Tool not found: ", n>>))]
            /\ direct' = NoAwait]_vars

\* executeTool was called with an unregistered name and threw
C7_Witness ==
  /\ lastCall.op = "executeTool"
  /\ ~Has(tools, lastCall.toolName)
  /\ lastCall.outcome.kind = "throw"
  /\ ~lastCall.invoked

\* C8: when the handler of a registered tool raises during executeTool,
\* executeTool returns {success:false, error:<the exception's message>}; the
\* exception does not propagate out of executeTool.
C8_HandlerExceptionIsSoftFailure ==
  [][\A e \in HandlerErrors :
       (direct /= NoAwait /\ HandlerSettled(Throw(e)))
         => /\ lastCall'.outcome = Return([success |-> FALSE, error |-> e.message])
            /\ lastCall'.toolName = direct.toolName
            /\ lastCall'.invoked]_vars

\* a handler threw and executeTool returned the soft failure
C8_Witness ==
  /\ lastCall.op = "executeTool"
  /\ lastCall.invoked
  /\ lastCall.outcome = Return([success |-> FALSE, error |-> <<"handler exploded">>])

PlanGenerationFails(error) ==
  \/ error = ServiceError /\ PlanServiceFails
  \/ \E content \in PlanContents :
       CreatePlan(content) = Throw(error) /\ PlanAnswered(content)
PlanErrors == {ServiceError} \cup {CreatePlan(content).value : content \in {c \in PlanContents : ~c.parses}}

\* C10: if plan generation fails during run, the run goes back to idle, emits
\* taskFailed and raises the same error to the caller; no step is started (no
\* step event, no tool or step-reasoning call) and taskComplete is not emitted.
C10_PlanFailureRejectsRun ==
  [][\A error \in PlanErrors :
       (pc = "planning" /\ PlanGenerationFails(error))
         => /\ status' = "idle"
            /\ settled' = Throw(error)
            /\ pc' = "rejected"
            /\ awaited' = NoAwait
            /\ results' = NoResults
            /\ events' = <<Event("taskStart", [taskId |-> taskId, objective |-> task.objective], 0, "running"),
                            Event("taskFailed", [taskId |-> taskId, error |-> error.message], 0, "idle")>>]_vars

\* a run was rejected because the answer of the planning request did not parse
C10_Witness ==
  /\ pc = "rejected"
  /\ settled = CreatePlan([parses |-> FALSE])
  /\ Len(events) = 2
  /\ status = "idle"

\* the answers to the planning request that do not have the required shape
Shapeless == {content \in PlanContents : ~content.parses \/ ~content.hasSteps}

\* C11: createPlan fails with the plan-generation error ("Failed to create
\* plan: ...") whenever the answer of the reasoning service cannot be parsed
\* into the required shape, when the text is malformed and when it parses but
\* has no steps field; in neither case does it return a value to run.
C11_ShapelessPlanFails ==
  [][\A content \in Shapeless :
       (pc = "planning" /\ PlanAnswered(content))
         => /\ CreatePlan(content).kind = "throw"
            /\ settled'.kind = "throw"
            /\ settled'.value.message[1] = "Failed to create plan: "]_vars

\* the reasoning request of a step settles, in any of the ways it can
ReasoningSettles ==
  \/ \E text \in ReasoningTexts : ReasoningAnswered(text)
  \/ ReasoningMalformed
  \/ ReasoningFails

\* C12: a step executed through the reasoning fallback never produces a hard
\* error: however the reasoning service answers (a malformed or empty answer
\* included), stepComplete is emitted for the step, its result has the form
\* {success:true, reasoning:<text>} and the run is not aborted by the step.
C12_FallbackNeverFails ==
  [][(pc = "reasoning" /\ ReasoningSettles)
       => /\ pc' /= "rejected"
          /\ HasEvent(events', "stepComplete", stepIdx)
          /\ ~HasEvent(events', "stepFailed", stepIdx)
          /\ plan[stepIdx].id \in DOMAIN results'
          /\ results'[plan[stepIdx].id].success]_vars

\* C12 as the code has it: whatever text the service returns (empty text
\* included, the text is not parsed), the result of the step is
\* {success:true, reasoning:<text>}, stepComplete is emitted and the run goes
\* on; when the request is rejected or its answer has no choices[0], the step
\* is a hard error: stepFailed then taskFailed are emitted, nothing is
\* recorded for the step and run rejects with that error.
C12_FallbackSurfacesText ==
  /\ [][\A text \in ReasoningTexts :
          (pc = "reasoning" /\ ReasoningAnswered(text))
            => LET value == [success |-> TRUE, reasoning |-> text]
               IN /\ results' = Set(results, plan[stepIdx].id, value)
                  /\ SubSeq(events', 1, Len(events) + 1) =
                       Append(events, Event("stepComplete", [step |-> plan[stepIdx], result |-> value],
                                            stepIdx, "running"))
                  /\ pc' \in {"tool", "reasoning", "report"}
                  /\ status' = "running"
                  /\ settled' = Pending]_vars
  /\ [][(pc = "reasoning" /\ (ReasoningMalformed \/ ReasoningFails))
          => /\ pc' = "rejected"
             /\ settled'.kind = "throw"
             /\ results' = results
             /\ Len(events') = Len(events) + 2
             /\ events'[Len(events) + 1].type = "stepFailed"
             /\ events'[Len(events) + 1].payload.error = settled'.value.message
             /\ events'[Len(events) + 2].type = "taskFailed"]_vars

\* the service answered a step with an empty text and the run went on
C12_Witness ==
  /\ InFlight
  /\ \E id \in DOMAIN results : results[id] = [success |-> TRUE, reasoning |-> ""]

ValidDefinition(d) == Truthy(d.name) /\ d.handler /= <<Absent>>

\* C13: registration is last-write-wins: after registerTool(tool) the registry
\* maps tool.name to that tool, whatever it held under the name before, the
\* names registered are the earlier ones and tool.name, entries under other
\* names are as before, and executeTool(name) invokes the handler of the tool
\* the registry holds for the name at the call.
C13_LastWriteWins ==
  /\ [][\A d \in RegistryDefinitions :
          (ValidDefinition(d) /\ RegisterTool(d))
            => /\ tools'[d.name] = d
               /\ DOMAIN tools' = DOMAIN tools \cup {d.name}
               /\ \A n \in DOMAIN tools \ {d.name} : tools'[n] = tools[n]]_vars
  /\ [][\A n \in ToolNames :
          (Has(tools, n) /\ ExecuteTool(n))
            => /\ direct'.toolName = n
               /\ direct'.tool = tools[n]]_vars

\* the built-in ipfsStore was overwritten, executeTool invokes the handler
\* registered in its place, and the other built-in entries are as they were
C13_Witness ==
  /\ direct /= NoAwait
  /\ direct.toolName = "ipfsStore"
  /\ direct.tool.handler = OtherHandler
  /\ tools["ipfsStore"].handler = OtherHandler
  /\ \A n \in BuiltinTools \ {"ipfsStore"} : tools[n] = RegisterWeb3Tools[n]

\* C14: registerTool(tool) fails with the invalid-tool error unless name and
\* handler are both present, and then leaves the registry as it was;
\* otherwise it inserts or overwrites the entry of the name and returns the
\* agent itself.
C14_RegisterToolValidates ==
  [][\A d \in RegistryDefinitions :
       RegisterTool(d)
         => IF Truthy(d.name) /\ d.handler /= <<Absent>>
            THEN /\ lastCall' = [op |-> "registerTool", outcome |-> Return([this |-> TRUE])]
                 /\ tools' = Set(tools, d.name, d)
            ELSE /\ lastCall' = [op |-> "registerTool",
                                 outcome |-> Throw(Error("Error", <<"Tool must have a name and handler function">>))]
                 /\ tools' = tools]_vars

\* a registration without handler failed after one that succeeded
C14_Witness ==
  /\ lastCall.op = "registerTool"
  /\ lastCall.outcome.kind = "throw"
  /\ Has(tools, "missingTool")
  /\ \A n \in DOMAIN tools : tools[n].handler /= <<Absent>>

\* C15: whenever run returns a report, the report has success = true and its
\* results map has an entry for every step id of the plan; for each step that
\* was executed by a registered tool the entry is exactly the value the
\* handler of the tool returned.
C15_ReportHoldsEveryResult ==
  pc = "returned" =>
    LET report == settled.value
    IN /\ settled.kind = "return"
       /\ report.success
       /\ DOMAIN report.results = {plan[k].id : k \in DOMAIN plan}
       /\ \A i \in DOMAIN events :
            (events[i].type = "stepComplete" /\ events[i].payload.result \in HandlerValues)
              => report.results[events[i].payload.step.id] = events[i].payload.result

\* what executeTool('ipfsStore') gives the handler of nftCreate
StorageResult(handlerOutcome) ==
  IF handlerOutcome.kind = "throw"
  THEN [success |-> FALSE, error |-> handlerOutcome.value.message]
  ELSE handlerOutcome.value

\* C16: the handler of nftCreate first invokes the ipfsStore tool the registry
\* holds at that moment, through executeTool; when the storage result has
\* success = false the mint call returns that same result unchanged, and it
\* returns a synthetic receipt only when the storage step succeeded.
C16_MintPropagatesStorageFailure ==
  /\ [][(Has(tools, "nftCreate") /\ ExecuteTool("nftCreate"))
          => direct'.storage = Return(tools["ipfsStore"])]_vars
  /\ [][\A handlerOutcome \in StorageOutcomes :
          (direct /= NoAwait /\ direct.toolName = "nftCreate" /\ HandlerSettled(handlerOutcome))
            => LET ipfsResult == StorageResult(handlerOutcome)
                   minted == lastCall'.outcome
               IN /\ minted.kind = "return"
                  /\ IF ~ipfsResult.success
                     THEN minted.value = ipfsResult
                     ELSE /\ DOMAIN minted.value = {"success", "tokenId", "metadataUri", "txHash"}
                          /\ minted.value.success
                          /\ minted.value.tokenId \in TokenIds
                          /\ minted.value.metadataUri = Field(ipfsResult, "url")]_vars

\* nftCreate was executed over an ipfsStore registered by a caller, whose
\* handler threw, and returned the failure of the storage call as it was
C16_Witness ==
  /\ lastCall.op = "executeTool"
  /\ lastCall.toolName = "nftCreate"
  /\ lastCall.outcome = Return([success |-> FALSE, error |-> <<"handler exploded">>])
  /\ tools["ipfsStore"].handler = CustomHandler

\* C17: status is back to idle before the terminal event is emitted: when
\* taskComplete or taskFailed is delivered status is idle, so the guard of run
\* lets a call made from that listener through; when taskStart, stepStart,
\* stepComplete or stepFailed is delivered status is running, so a call made
\* from those listeners is refused as busy.
C17_StatusAtDelivery ==
  \A i \in DOMAIN events :
    IF events[i].type \in TerminalEvents
    THEN events[i].status = "idle" /\ ~AgentBusy(events[i].status)
    ELSE events[i].status = "running" /\ AgentBusy(events[i].status)

\* a run that failed at its second step delivered all five kinds of event
C17_Witness ==
  /\ pc = "rejected"
  /\ {events[i].type : i \in DOMAIN events}
       = {"taskStart", "stepStart", "stepComplete", "stepFailed", "taskFailed"}
  /\ events[Len(events)].status = "idle"
  /\ events[Len(events) - 1].status = "running"

EventsOfType(types) == {i \in DOMAIN events : events[i].type \in types}

C19_TaskWalletWins ==
  pc = "tool" =>
    LET step == plan[stepIdx]
        received == awaited.parameters
    IN /\ DOMAIN received = DOMAIN step.parameters \cup {"walletAddress"}
       /\ received.walletAddress = task.walletAddress
       /\ \A name \in DOMAIN step.parameters \ {"walletAddress"} :
            received[name] = step.parameters[name]

\* a handler is invoked for a task without walletAddress by a step whose
\* parameters name one
C19_Witness ==
  /\ pc = "tool"
  /\ task.walletAddress = Absent
  /\ plan[stepIdx].parameters = [content |-> "metadata", walletAddress |-> "0xEVIL"]
  /\ awaited.parameters = [content |-> "metadata", walletAddress |-> Absent]

\* the error of line 216, by its message
IsToolNotFound(message) == message[1] = "Tool not found: "

\* C20: the registry only grows: no step of registerTool, enableTool,
\* executeTool or run takes a name out of it.  Plan execution tests
\* tools.has(step.tool) and executeTool reads tools.get(step.tool) with no
\* await in between, so under every interleaving with registerTool and
\* enableTool no step of a plan fails with 'Tool not found', no run rejects
\* with it, and the executeTool a handler makes finds its tool as well.
C20_RegistryOnlyGrows ==
  /\ [][\A name \in DOMAIN tools : Has(tools', name)]_vars
  /\ [](/\ \A i \in DOMAIN events :
             events[i].type = "stepFailed" => ~IsToolNotFound(events[i].payload.error)
        /\ settled.kind = "throw" => ~IsToolNotFound(settled.value.message)
        /\ pc = "tool" => /\ Has(tools, plan[stepIdx].tool)
                          /\ awaited.storage.kind /= "throw")

\* a run in which a step naming missingTool fell back to reasoning while the
\* name was unregistered, the name was registered while the run went on, and
\* a later step naming it has its handler invoked
C20_Witness ==
  /\ pc = "tool"
  /\ plan[stepIdx].tool = "missingTool"
  /\ awaited.tool = tools["missingTool"]
  /\ \E i \in DOMAIN events :
       /\ events[i].type = "stepComplete"
       /\ events[i].index < stepIdx
       /\ events[i].payload.step.tool = "missingTool"
       /\ "reasoning" \in DOMAIN events[i].payload.result
====
